---- MODULE Spec2Model ----
(***************************************************************************)
(* CorespaceWeigher: registration of a parachain for resource-utilization *)
(* tracking (routes/src/register.rs) and extension of its subscription    *)
(* (routes/src/extend_subscription.rs), both optionally gated by an        *)
(* on-chain payment that is verified against a finalized block.            *)
(***************************************************************************)
EXTENDS Integers, Sequences, FiniteSets, TLC

(***************************************************************************)
(* Bounds of the model.                                                    *)
(***************************************************************************)
\* current_timestamp() ranges over 0..MaxTime
MaxTime == 3
\* the remote chain has blocks 1..MaxBlock
MaxBlock == 4
\* the registry holds at most MaxParas records
MaxParas == 2
\* expiry timestamps are kept within 0..MaxExpiry
MaxExpiry == 5

(***************************************************************************)
(* Text.  A string is the sequence of its ASCII codes.                     *)
(***************************************************************************)
RECURSIVE ToDecimal(_)
\* Display of an unsigned integer, as format!("{}", para_id) prints it.
ToDecimal(n) ==
    IF n < 10 THEN <<48 + n>>
    ELSE Append(ToDecimal(n \div 10), 48 + (n % 10))

\* Display of types::RelayChain.
RelayChainName(relay_chain) ==
    IF relay_chain = "Polkadot"
    THEN <<80, 111, 108, 107, 97, 100, 111, 116>>
    ELSE <<75, 117, 115, 97, 109, 97>>

IsDigit(c) == c >= 48 /\ c <= 57

RECURSIVE DigitsValue(_)
DigitsValue(s) ==
    IF s = <<>> THEN 0
    ELSE 10 * DigitsValue(SubSeq(s, 1, Len(s) - 1)) + (s[Len(s)] - 48)

\* str::parse::<u128>: an optional '+' sign, then one or more decimal digits.
ParseCost(s) ==
    LET digits == IF s # <<>> /\ s[1] = 43 THEN Tail(s) ELSE s
    IN  IF digits # <<>> /\ \A i \in 1..Len(digits) : IsDigit(digits[i])
        THEN [ok |-> TRUE, value |-> DigitsValue(digits)]
        ELSE [ok |-> FALSE, value |-> 0]

(***************************************************************************)
(* The runtime call type (polkadot::Call) and its SCALE encoding.          *)
(***************************************************************************)
NoBytes == <<>>

TransferKeepAlive(dest, value) ==
    [pallet |-> "Balances", call |-> "transfer_keep_alive",
     dest |-> dest, value |-> value, remark |-> NoBytes, calls |-> <<>>]

SystemRemark(remark) ==
    [pallet |-> "System", call |-> "remark",
     dest |-> NoBytes, value |-> 0, remark |-> remark, calls |-> <<>>]

BatchAll(calls) ==
    [pallet |-> "Utility", call |-> "batch_all",
     dest |-> NoBytes, value |-> 0, remark |-> NoBytes, calls |-> calls]

RECURSIVE LittleEndian(_, _)
LittleEndian(n, width) ==
    IF width = 0 THEN <<>>
    ELSE <<n % 256>> \o LittleEndian(n \div 256, width - 1)

\* SCALE compact integer (single-, two- and four-byte modes).
CompactEncode(n) ==
    IF n < 64 THEN <<4 * n>>
    ELSE IF n < 16384 THEN LittleEndian(4 * n + 1, 2)
    ELSE LittleEndian(4 * n + 2, 4)

\* Pallet and call indices of the runtime metadata.
CallIndex(c) ==
    IF c.pallet = "System" THEN <<0, 0>>
    ELSE IF c.pallet = "Balances" THEN <<5, 3>>
    ELSE <<26, 2>>

RECURSIVE Encode(_)
RECURSIVE EncodeAll(_)
\* parity_scale_codec::Encode for polkadot::Call.
Encode(c) ==
    CallIndex(c) \o
    (IF c.pallet = "System" THEN CompactEncode(Len(c.remark)) \o c.remark
     ELSE IF c.pallet = "Balances" THEN <<0>> \o c.dest \o CompactEncode(c.value)
     ELSE CompactEncode(Len(c.calls)) \o EncodeAll(c.calls))

EncodeAll(calls) ==
    IF calls = <<>> THEN <<>>
    ELSE Encode(Head(calls)) \o EncodeAll(Tail(calls))

\* Decoding of a SCALE compact integer; non-canonical forms are rejected.
CompactDecode(b) ==
    LET fail == [ok |-> FALSE, value |-> 0, rest |-> <<>>]
    IN  IF b = <<>> THEN fail
        ELSE IF b[1] % 4 = 0
             THEN [ok |-> TRUE, value |-> b[1] \div 4, rest |-> Tail(b)]
        ELSE IF b[1] % 4 = 1
             THEN IF Len(b) >= 2 /\ (b[1] + 256 * b[2]) \div 4 >= 64
                  THEN [ok |-> TRUE, value |-> (b[1] + 256 * b[2]) \div 4,
                        rest |-> SubSeq(b, 3, Len(b))]
                  ELSE fail
        ELSE fail

\* The configured receiver and another account (account ids abbreviated).
Receiver == <<17, 34>>
OtherAccount == <<51, 68>>

\* Length in bytes of an account id.
AccountLen == Len(Receiver)

RECURSIVE DecodeCall(_)
RECURSIVE DecodeCalls(_, _)
\* parity_scale_codec::Decode for polkadot::Call: the call read from the front
\* of b and the bytes left over.
DecodeCall(b) ==
    LET fail == [ok |-> FALSE, call |-> BatchAll(<<>>), rest |-> <<>>]
    IN  IF Len(b) < 2 THEN fail
        ELSE LET body == SubSeq(b, 3, Len(b))
             IN  IF <<b[1], b[2]>> = <<0, 0>>
                 THEN LET n == CompactDecode(body)
                      IN  IF n.ok /\ Len(n.rest) >= n.value
                          THEN [ok |-> TRUE,
                                call |-> SystemRemark(SubSeq(n.rest, 1, n.value)),
                                rest |-> SubSeq(n.rest, n.value + 1, Len(n.rest))]
                          ELSE fail
                 ELSE IF <<b[1], b[2]>> = <<5, 3>>
                 THEN IF Len(body) > AccountLen /\ body[1] = 0
                      THEN LET v == CompactDecode(SubSeq(body, AccountLen + 2, Len(body)))
                           IN  IF v.ok
                               THEN [ok |-> TRUE,
                                     call |-> TransferKeepAlive(
                                                SubSeq(body, 2, AccountLen + 1), v.value),
                                     rest |-> v.rest]
                               ELSE fail
                      ELSE fail
                 ELSE IF <<b[1], b[2]>> = <<26, 2>>
                 THEN LET n == CompactDecode(body)
                      IN  IF n.ok
                          THEN LET cs == DecodeCalls(n.rest, n.value)
                               IN  IF cs.ok
                                   THEN [ok |-> TRUE, call |-> BatchAll(cs.calls),
                                         rest |-> cs.rest]
                                   ELSE fail
                          ELSE fail
                 ELSE fail

DecodeCalls(b, n) ==
    IF n = 0 THEN [ok |-> TRUE, calls |-> <<>>, rest |-> b]
    ELSE LET first == DecodeCall(b)
         IN  IF ~first.ok THEN [ok |-> FALSE, calls |-> <<>>, rest |-> <<>>]
             ELSE LET others == DecodeCalls(first.rest, n - 1)
                  IN  IF others.ok
                      THEN [ok |-> TRUE, calls |-> <<first.call>> \o others.calls,
                            rest |-> others.rest]
                      ELSE [ok |-> FALSE, calls |-> <<>>, rest |-> <<>>]

\* ExtrinsicDetails::as_root_extrinsic::<polkadot::Call>(): the whole of the
\* call bytes must decode to one call.
AsRootExtrinsic(call_bytes) ==
    LET d == DecodeCall(call_bytes)
    IN  IF d.ok /\ d.rest = <<>> THEN [ok |-> TRUE, call |-> d.call]
        ELSE [ok |-> FALSE, call |-> BatchAll(<<>>)]

(***************************************************************************)
(* Parachains, configuration and the expected payment call.                *)
(***************************************************************************)
Identities == {<<"Polkadot", 2000>>, <<"Polkadot", 2006>>}

\* types::Parachain
Parachain(relay_chain, para_id, expiry_timestamp) ==
    [relay_chain |-> relay_chain, para_id |-> para_id,
     expiry_timestamp |-> expiry_timestamp]

\* Option<BlockNumber>
None == [some |-> FALSE, number |-> 0]
Some(n) == [some |-> TRUE, number |-> n]

\* config().payment_info: Option<PaymentInfo>; `some = FALSE` is free mode.
NoPaymentInfo ==
    [some |-> FALSE, receiver |-> NoBytes, cost |-> <<>>,
     subscription_duration |-> 0, renewal_period |-> 0]

PaymentInfo(receiver, cost, subscription_duration, renewal_period) ==
    [some |-> TRUE, receiver |-> receiver, cost |-> cost,
     subscription_duration |-> subscription_duration,
     renewal_period |-> renewal_period]

\* The cost strings "10" and "1x".
CostStrings == {<<49, 48>>, <<49, 120>>}
RenewalPeriods == {1, 2}
SubscriptionDurations == {2}

Configs ==
    {NoPaymentInfo} \cup
    {PaymentInfo(Receiver, c, d, r) :
        c \in CostStrings, d \in SubscriptionDurations, r \in RenewalPeriods}

\* format!("{}:{}", para.relay_chain, para.para_id).as_bytes()
RemarkBytes(para) ==
    RelayChainName(para.relay_chain) \o <<58>> \o ToDecimal(para.para_id)

\* Mutation of PaymentCalls: the remark comes before the transfer.
PaymentCallsRemarkFirst(para, payment_info, cost) ==
    <<SystemRemark(RemarkBytes(para)),
      TransferKeepAlive(payment_info.receiver, cost)>>

\* The two sub-calls of the expected batch, in order.
PaymentCalls(para, payment_info, cost) ==
    <<TransferKeepAlive(payment_info.receiver, cost),
      SystemRemark(RemarkBytes(para))>>

\* Mutation of OpaquePaymentExtrinsic: a cost that does not parse counts as 0.
OpaquePaymentExtrinsicDefaultCost(para, payment_info) ==
    [ok |-> TRUE,
     call |-> BatchAll(PaymentCalls(para, payment_info,
                                    ParseCost(payment_info.cost).value))]

\* opaque_payment_extrinsic
OpaquePaymentExtrinsic(para, payment_info) ==
    LET cost == ParseCost(payment_info.cost)
    IN  IF cost.ok
        THEN [ok |-> TRUE,
              call |-> BatchAll(PaymentCalls(para, payment_info, cost.value))]
        ELSE [ok |-> FALSE, call |-> BatchAll(<<>>)]

RECURSIVE RootExtrinsicsUntilFailure(_)
\* Mutation of RootExtrinsics: the scan ends at the first extrinsic that
\* cannot be read or decoded.
RootExtrinsicsUntilFailure(extrinsics) ==
    IF extrinsics = <<>> THEN <<>>
    ELSE LET ext == Head(extrinsics)
             root == AsRootExtrinsic(ext.call_bytes)
         IN  IF ext.ok /\ root.ok
             THEN <<Encode(root.call)>> \o RootExtrinsicsUntilFailure(Tail(extrinsics))
             ELSE <<>>

RECURSIVE RootExtrinsics(_)
\* The filter_map/map of ensure_contains_payment: the re-encoded calls of the
\* extrinsics that are readable and decode as a root call, in block order.
RootExtrinsics(extrinsics) ==
    IF extrinsics = <<>> THEN <<>>
    ELSE LET ext == Head(extrinsics)
             root == AsRootExtrinsic(ext.call_bytes)
         IN  (IF ext.ok /\ root.ok THEN <<Encode(root.call)>> ELSE <<>>)
             \o RootExtrinsics(Tail(extrinsics))

\* Mutation of ContainsPayment: any decodable extrinsic counts as the payment.
ContainsAnyCall(encoded, payment) == encoded # <<>>

\* extrinsics.contains(&payment.encode())
ContainsPayment(encoded, payment) ==
    \E i \in 1..Len(encoded) : encoded[i] = Encode(payment)

\* Mutation of IsUnfinalized: the finalized head itself is rejected.
IsUnfinalizedOrHead(payment_block_number, last_finalized) ==
    payment_block_number >= last_finalized

\* payment_block_number > last_finalized
IsUnfinalized(payment_block_number, last_finalized) ==
    payment_block_number > last_finalized

(***************************************************************************)
(* The remote chain.                                                       *)
(***************************************************************************)
\* An extrinsic of a block: `ok = FALSE` is one the block iterator fails on.
Extrinsic(call) == [ok |-> TRUE, call_bytes |-> Encode(call)]
UnreadableExtrinsic == [ok |-> FALSE, call_bytes |-> <<>>]
\* A call of a pallet the decoder does not know.
ForeignExtrinsic == [ok |-> TRUE, call_bytes |-> <<99, 0, 1>>]

\* The payment the payer of `identity` was instructed to submit: cost 10.
PaidCall(identity) ==
    BatchAll(<<TransferKeepAlive(Receiver, 10),
               SystemRemark(RemarkBytes(Parachain(identity[1], identity[2], 0)))>>)

\* Calls that resemble the payment of `identity` without being it.
NearMisses(identity) ==
    LET transfer == TransferKeepAlive(Receiver, 10)
        remark == SystemRemark(RemarkBytes(Parachain(identity[1], identity[2], 0)))
    IN  <<Extrinsic(BatchAll(<<remark, transfer>>)),
          Extrinsic(BatchAll(<<TransferKeepAlive(Receiver, 11), remark>>)),
          Extrinsic(BatchAll(<<TransferKeepAlive(OtherAccount, 10), remark>>)),
          Extrinsic(BatchAll(<<transfer>>)),
          Extrinsic(BatchAll(<<transfer, remark, remark>>)),
          Extrinsic(remark)>>

\* The bodies of the chain's blocks; block n holds body ((n - 1) mod 4) + 1.
BlockBodies ==
    << <<ForeignExtrinsic, Extrinsic(PaidCall(<<"Polkadot", 2000>>))>>,
       <<Extrinsic(PaidCall(<<"Polkadot", 2006>>)), UnreadableExtrinsic>>,
       NearMisses(<<"Polkadot", 2000>>),
       <<UnreadableExtrinsic, Extrinsic(PaidCall(<<"Kusama", 2000>>)),
         ForeignExtrinsic, Extrinsic(PaidCall(<<"Polkadot", 2000>>)),
         Extrinsic(PaidCall(<<"Polkadot", 2006>>))>> >>

\* block.extrinsics() of the block with the given number
BlockAt(number) == BlockBodies[((number - 1) % Len(BlockBodies)) + 1]

(***************************************************************************)
(* State.                                                                  *)
(***************************************************************************)
VARIABLES
    registry,       \* the stored registry: a sequence of Parachain records
    payment_info,   \* config().payment_info
    now,            \* current_timestamp()
    finalized,      \* number of the remote chain's finalized head
    spent,          \* the payments that have justified a stored mutation
    req             \* the request each worker is handling

vars == <<registry, payment_info, now, finalized, spent, req>>

\* Workers that handle requests.
Workers == {1, 2}

\* Result<(), Error> of a request; `inner` is the PaymentError wrapped by
\* Error::PaymentValidationError.
Pending == [state |-> "pending", err |-> "", inner |-> ""]
Ok == [state |-> "ok", err |-> "", inner |-> ""]
Err(kind) == [state |-> "err", err |-> kind, inner |-> ""]
PaymentValidationError(kind) ==
    [state |-> "err", err |-> "PaymentValidationError", inner |-> kind]

IdleRequest ==
    [pc |-> "idle", op |-> "none", para |-> Parachain("", 0, 0),
     payment_block_number |-> None,
     paras |-> <<>>,            \* register_para: registered_paras() of line 64
     head_hash |-> 0,           \* hash returned by chain_getFinalizedHead
     last_finalized |-> 0,      \* number of the finalized head block
     block_hash |-> 0,          \* hash returned by chain_getBlockHash
     block |-> 0,               \* the block fetched for the claimed number
     rpc_calls |-> 0,           \* RPC calls made on behalf of the request
     extrinsics_read |-> FALSE, \* block.extrinsics() returned Ok
     verdict |-> "none",        \* what validate_registration_payment returned
     result |-> Pending,        \* what the handler returned
     now_read |-> 0,            \* current_timestamp() as read by the handler
     write_attempted |-> FALSE, \* update_registry was called
     written |-> FALSE,         \* update_registry returned Ok
     failed_at |-> "",          \* the step whose RPC call failed, if any
     absent_seen |-> FALSE,     \* the identity left the registry meanwhile
     paid_again |-> FALSE,      \* the payment had justified a mutation before
     registry_before |-> <<>>]  \* the registry when the request arrived

(***************************************************************************)
(* shared::registry                                                        *)
(***************************************************************************)
SameIdentity(para, relay_chain, para_id) ==
    para.relay_chain = relay_chain /\ para.para_id = para_id

IsRegistered(reg, relay_chain, para_id) ==
    \E i \in 1..Len(reg) : SameIdentity(reg[i], relay_chain, para_id)

\* registered_para(relay_chain, para_id), when it is Some
RegisteredPara(reg, relay_chain, para_id) ==
    reg[CHOOSE i \in 1..Len(reg) :
            /\ SameIdentity(reg[i], relay_chain, para_id)
            /\ \A j \in 1..(i - 1) : ~SameIdentity(reg[j], relay_chain, para_id)]

(***************************************************************************)
(* register_para                                                           *)
(***************************************************************************)
\* Mutation of RegisterAdmission: the payment block number is required before
\* the duplicate check is made.
RegisterAdmissionPaymentFirst(reg, para, info, payment_block_number) ==
    IF info.some /\ ~payment_block_number.some THEN "PaymentRequired"
    ELSE IF IsRegistered(reg, para.relay_chain, para.para_id)
         THEN "AlreadyRegistered"
    ELSE IF info.some THEN "validate"
    ELSE "push"

\* Mutation of RegisterAdmission: a missing payment block number is let
\* through to validation.
RegisterAdmissionNoneValidated(reg, para, info, payment_block_number) ==
    IF IsRegistered(reg, para.relay_chain, para.para_id) THEN "AlreadyRegistered"
    ELSE IF info.some THEN "validate"
    ELSE "push"

\* Mutation of RegisterAdmission: no duplicate check is made.
RegisterAdmissionNoDuplicateCheck(reg, para, info, payment_block_number) ==
    IF info.some
    THEN IF ~payment_block_number.some THEN "PaymentRequired" ELSE "validate"
    ELSE "push"

\* Lines 66-75: what register_para decides before any await.
RegisterAdmission(reg, para, info, payment_block_number) ==
    IF IsRegistered(reg, para.relay_chain, para.para_id) THEN "AlreadyRegistered"
    ELSE IF info.some
         THEN IF ~payment_block_number.some THEN "PaymentRequired" ELSE "validate"
         ELSE "push"

\* Mutation of PushPara: the new record replaces the collection.
PushParaAlone(paras, para) == <<para>>

\* paras.push(para)
PushPara(paras, para) == Append(paras, para)

\* `validate_registration_payment(..).await?` of register_para
RegisterPropagate(failure) == Err(failure)

(***************************************************************************)
(* extend_subscription                                                     *)
(***************************************************************************)
SaturatingSub(a, b) == IF a > b THEN a - b ELSE 0

\* Mutation of CannotRenewYet: the instant the window opens is still too early.
CannotRenewYetInclusive(para, info, timestamp) ==
    SaturatingSub(para.expiry_timestamp, info.renewal_period) >= timestamp

\* para.expiry_timestamp.saturating_sub(renewal_period) > current_timestamp()
CannotRenewYet(para, info, timestamp) ==
    SaturatingSub(para.expiry_timestamp, info.renewal_period) > timestamp

\* Mutation of ExtendAdmission: in paid mode the payment is validated before
\* the identity is looked up.
ExtendAdmissionPaymentFirst(reg, relay_chain, para_id, info, timestamp) ==
    IF info.some /\ ~IsRegistered(reg, relay_chain, para_id) THEN "validate"
    ELSE IF ~IsRegistered(reg, relay_chain, para_id) THEN "NotRegistered"
    ELSE IF info.some
         THEN IF CannotRenewYet(RegisteredPara(reg, relay_chain, para_id),
                                info, timestamp)
              THEN "AlreadyRegistered"
              ELSE "validate"
         ELSE "write"

\* Lines 47-66: what extend_subscription decides before any await.
ExtendAdmission(reg, relay_chain, para_id, info, timestamp) ==
    IF ~IsRegistered(reg, relay_chain, para_id) THEN "NotRegistered"
    ELSE IF info.some
         THEN IF CannotRenewYet(RegisteredPara(reg, relay_chain, para_id),
                                info, timestamp)
              THEN "AlreadyRegistered"
              ELSE "validate"
         ELSE "write"

\* Mutation of SubscriptionDuration: free mode adds a duration of its own.
SubscriptionDurationNeverZero(info) ==
    IF info.some THEN info.subscription_duration ELSE 2

\* The duration extend_subscription adds: Default::default() in free mode.
SubscriptionDuration(info) ==
    IF info.some THEN info.subscription_duration ELSE 0

\* `.map_err(Error::PaymentValidationError)?` of extend_subscription
ExtendPropagate(failure) == PaymentValidationError(failure)

\* paras.iter_mut().find(|p| **p == para): index of the first equal record,
\* 0 when there is none.
FindPara(paras, para) ==
    IF \E i \in 1..Len(paras) : paras[i] = para
    THEN CHOOSE i \in 1..Len(paras) :
            paras[i] = para /\ \A j \in 1..(i - 1) : paras[j] # para
    ELSE 0

\* Mutation of ExtendExpiry: the expiry is reset to the current time plus the
\* duration.
ExtendExpiryReset(paras, i, subscription_duration) ==
    [paras EXCEPT ![i].expiry_timestamp = now + subscription_duration]

\* para.expiry_timestamp += subscription_duration, on the record at index i
ExtendExpiry(paras, i, subscription_duration) ==
    [paras EXCEPT ![i].expiry_timestamp = @ + subscription_duration]

(***************************************************************************)
(* Requests.                                                               *)
(***************************************************************************)
\* Expiry timestamps of the paras that callers register.
RegisterExpiries == {1, 3}

BlockNumbers == 1..(MaxBlock + 1)

\* POST /register_para: lines 55-75, up to the first await.
RegisterPara(p, para, payment_block_number) ==
    /\ req[p].pc = "idle"
    /\ IsRegistered(registry, para.relay_chain, para.para_id)
         \/ Len(registry) < MaxParas
    /\ LET admission ==
               RegisterAdmission(registry, para, payment_info, payment_block_number)
           r == [IdleRequest EXCEPT
                    !.op = "register", !.para = para,
                    !.payment_block_number = payment_block_number,
                    !.paras = registry, !.registry_before = registry]
       IN  req' = [req EXCEPT ![p] =
                IF admission = "validate" THEN [r EXCEPT !.pc = "rpc_client"]
                ELSE IF admission = "push" THEN [r EXCEPT !.pc = "update_registry"]
                ELSE [r EXCEPT !.pc = "done", !.result = Err(admission)]]
    /\ UNCHANGED <<registry, payment_info, now, finalized, spent>>

\* POST /extend-subscription: lines 38-66, up to the first await.
ExtendSubscription(p, identity, number) ==
    /\ req[p].pc = "idle"
    /\ IsRegistered(registry, identity[1], identity[2]) =>
         RegisteredPara(registry, identity[1], identity[2]).expiry_timestamp
            + SubscriptionDuration(payment_info) <= MaxExpiry
    /\ LET admission ==
               ExtendAdmission(registry, identity[1], identity[2], payment_info, now)
           r == [IdleRequest EXCEPT
                    !.op = "extend",
                    !.para = IF IsRegistered(registry, identity[1], identity[2])
                             THEN RegisteredPara(registry, identity[1], identity[2])
                             ELSE Parachain(identity[1], identity[2], 0),
                    !.payment_block_number = Some(number),
                    !.now_read = IF admission \in {"AlreadyRegistered", "validate"}
                                 THEN now ELSE 0,
                    !.registry_before = registry]
       IN  req' = [req EXCEPT ![p] =
                IF admission = "validate" THEN [r EXCEPT !.pc = "rpc_client"]
                ELSE IF admission = "write" THEN [r EXCEPT !.pc = "extend_write"]
                ELSE [r EXCEPT !.pc = "done", !.result = Err(admission)]]
    /\ UNCHANGED <<registry, payment_info, now, finalized, spent>>

\* The request once validate_registration_payment has returned `verdict`.
Conclude(r, verdict) ==
    IF verdict = "Ok"
    THEN [r EXCEPT !.verdict = verdict,
                   !.pc = IF r.op = "register" THEN "update_registry"
                          ELSE "extend_write"]
    ELSE [r EXCEPT !.verdict = verdict, !.pc = "done",
                   !.result = IF r.op = "register" THEN RegisterPropagate(verdict)
                              ELSE ExtendPropagate(verdict)]

\* One more RPC call made for request r.
Called(r) == [r EXCEPT !.rpc_calls = @ + 1]

\* Mutation of RpcFailed: the failed call is left to be made again.
RpcFailedRetried(r) == [Called(r) EXCEPT !.failed_at = r.pc]

\* `.map_err(|_| Error::PaymentValidationFailed)?` on the RPC call of the step
\* request r is at: the call was made, failed, and the verifier returns.
RpcFailed(r) ==
    [Conclude(Called(r), "PaymentValidationFailed") EXCEPT !.failed_at = r.pc]

\* RpcClient::from_url
ConnectRpcClient(p) ==
    /\ req[p].pc = "rpc_client"
    /\ \E ok \in BOOLEAN :
         req' = [req EXCEPT ![p] =
            IF ok THEN [Called(req[p]) EXCEPT !.pc = "online_client"]
            ELSE RpcFailed(req[p])]
    /\ UNCHANGED <<registry, payment_info, now, finalized, spent>>

\* OnlineClient::from_url
ConnectOnlineClient(p) ==
    /\ req[p].pc = "online_client"
    /\ \E ok \in BOOLEAN :
         req' = [req EXCEPT ![p] =
            IF ok THEN [Called(req[p]) EXCEPT !.pc = "finalized_head"]
            ELSE RpcFailed(req[p])]
    /\ UNCHANGED <<registry, payment_info, now, finalized, spent>>

\* get_last_finalized_block: the chain_getFinalizedHead request
GetFinalizedHead(p) ==
    /\ req[p].pc = "finalized_head"
    /\ \E ok \in BOOLEAN :
         req' = [req EXCEPT ![p] =
            IF ok THEN [Called(req[p]) EXCEPT !.pc = "head_block", !.head_hash = finalized]
            ELSE RpcFailed(req[p])]
    /\ UNCHANGED <<registry, payment_info, now, finalized, spent>>

\* get_last_finalized_block: get_block of the head, then the check of line 107
GetHeadBlock(p) ==
    /\ req[p].pc = "head_block"
    /\ \E ok \in BOOLEAN :
         req' = [req EXCEPT ![p] =
            IF ok
            THEN LET r == [Called(req[p]) EXCEPT !.last_finalized = req[p].head_hash]
                 IN  IF IsUnfinalized(r.payment_block_number.number, r.last_finalized)
                     THEN Conclude(r, "UnfinalizedPayment")
                     ELSE [r EXCEPT !.pc = "block_hash"]
            ELSE RpcFailed(req[p])]
    /\ UNCHANGED <<registry, payment_info, now, finalized, spent>>

\* get_block_hash
GetBlockHash(p) ==
    /\ req[p].pc = "block_hash"
    /\ \E ok \in BOOLEAN :
         req' = [req EXCEPT ![p] =
            IF ok THEN [Called(req[p]) EXCEPT !.pc = "get_block",
                                         !.block_hash = req[p].payment_block_number.number]
            ELSE RpcFailed(req[p])]
    /\ UNCHANGED <<registry, payment_info, now, finalized, spent>>

\* get_block of the claimed block, then opaque_payment_extrinsic
GetBlock(p) ==
    /\ req[p].pc = "get_block"
    /\ \E ok \in BOOLEAN :
         req' = [req EXCEPT ![p] =
            IF ok
            THEN LET r == [Called(req[p]) EXCEPT !.block = req[p].block_hash]
                 IN  IF OpaquePaymentExtrinsic(r.para, payment_info).ok
                     THEN [r EXCEPT !.pc = "extrinsics"]
                     ELSE Conclude(r, "PaymentValidationFailed")
            ELSE RpcFailed(req[p])]
    /\ UNCHANGED <<registry, payment_info, now, finalized, spent>>

\* ensure_contains_payment: block.extrinsics() and the search
GetExtrinsics(p) ==
    /\ req[p].pc = "extrinsics"
    /\ \E ok \in BOOLEAN :
         req' = [req EXCEPT ![p] =
            IF ok
            THEN LET r == [Called(req[p]) EXCEPT !.extrinsics_read = TRUE]
                 IN  IF ContainsPayment(
                            RootExtrinsics(BlockAt(r.block)),
                            OpaquePaymentExtrinsic(r.para, payment_info).call)
                     THEN Conclude(r, "Ok")
                     ELSE Conclude(r, "PaymentNotFound")
            ELSE RpcFailed(req[p])]
    /\ UNCHANGED <<registry, payment_info, now, finalized, spent>>

\* The requests, with those extensions in progress marked whose identity is
\* not in the registry `reg` that has just been written.
NoteAbsent(requests, reg) ==
    [q \in Workers |->
        IF /\ requests[q].op = "extend"
           /\ requests[q].pc \notin {"idle", "done"}
           /\ ~IsRegistered(reg, requests[q].para.relay_chain,
                            requests[q].para.para_id)
        THEN [requests[q] EXCEPT !.absent_seen = TRUE]
        ELSE requests[q]]

\* Mutation of ResultAfterUpdate: a failed registry write fails the request.
ResultAfterUpdateSurfaced(stored) ==
    IF stored THEN Ok ELSE Err("RegistryWriteFailed")

\* What the handlers return after update_registry: its error is logged only.
ResultAfterUpdate(stored) == Ok

\* The payment request r cites: the identity and the payment block number.
PaymentOf(r) ==
    <<r.para.relay_chain, r.para.para_id, r.payment_block_number.number>>

\* The payments that have justified a stored mutation, once request r, whose
\* payment verified, has had its write stored or not.
Spend(used, r, stored) ==
    IF stored /\ r.verdict = "Ok" THEN used \cup {PaymentOf(r)} ELSE used

\* register_para, lines 77-87: push, update_registry (which may fail), Ok
UpdateRegistry(p) ==
    /\ req[p].pc = "update_registry"
    /\ \E stored \in BOOLEAN :
         /\ registry' = IF stored THEN PushPara(req[p].paras, req[p].para)
                        ELSE registry
         /\ req' = NoteAbsent([req EXCEPT ![p].pc = "done",
                                          ![p].result = ResultAfterUpdate(stored),
                                          ![p].write_attempted = TRUE,
                                          ![p].written = stored],
                              registry')
         /\ spent' = Spend(spent, req[p], stored)
    /\ UNCHANGED <<payment_info, now, finalized>>

\* extend_subscription, lines 68-89: re-read, find, add, update_registry
ExtendWrite(p) ==
    /\ req[p].pc = "extend_write"
    /\ LET paras == registry
           i == FindPara(paras, req[p].para)
       IN  IF i = 0
           THEN /\ req' = [req EXCEPT ![p].pc = "done",
                                      ![p].result = Err("NotRegistered")]
                /\ UNCHANGED <<registry, spent>>
           ELSE \E stored \in BOOLEAN :
                  /\ spent' = Spend(spent, req[p], stored)
                  /\ registry' =
                        IF stored
                        THEN ExtendExpiry(paras, i, SubscriptionDuration(payment_info))
                        ELSE registry
                  /\ req' = [req EXCEPT ![p].pc = "done",
                                        ![p].result = ResultAfterUpdate(stored),
                                        ![p].write_attempted = TRUE,
                                        ![p].written = stored,
                                        ![p].paid_again =
                                            /\ req[p].verdict = "Ok"
                                            /\ PaymentOf(req[p]) \in spent]
    /\ UNCHANGED <<payment_info, now, finalized>>

\* The response is sent and the worker is free again.
Respond(p) ==
    /\ req[p].pc = "done"
    /\ req' = [req EXCEPT ![p] = IdleRequest]
    /\ UNCHANGED <<registry, payment_info, now, finalized, spent>>

\* Time passes.
Tick ==
    /\ now < MaxTime
    /\ now' = now + 1
    /\ UNCHANGED <<registry, payment_info, finalized, spent, req>>

\* The remote chain finalizes its next block.
Finalize ==
    /\ finalized < MaxBlock
    /\ finalized' = finalized + 1
    /\ UNCHANGED <<registry, payment_info, now, spent, req>>

\* The registry the service starts with: empty, or holding a para registered
\* by an earlier run.
InitialRegistries == {<<>>, <<Parachain("Polkadot", 2000, 3)>>}

Init ==
    /\ registry \in InitialRegistries
    /\ payment_info \in Configs
    /\ now = 0
    /\ finalized = MaxBlock - 1
    /\ spent = {}
    /\ req = [p \in Workers |-> IdleRequest]

\* A step of worker p; the requests it may receive cite the given expiry
\* timestamps and payment block numbers.
Handle(p, expiries, numbers) ==
    \/ \E id \in Identities, e \in expiries :
         \E b \in {None} \cup {Some(n) : n \in numbers} :
            RegisterPara(p, Parachain(id[1], id[2], e), b)
    \/ \E id \in Identities, n \in numbers : ExtendSubscription(p, id, n)
    \/ ConnectRpcClient(p)
    \/ ConnectOnlineClient(p)
    \/ GetFinalizedHead(p)
    \/ GetHeadBlock(p)
    \/ GetBlockHash(p)
    \/ GetBlock(p)
    \/ GetExtrinsics(p)
    \/ UpdateRegistry(p)
    \/ ExtendWrite(p)
    \/ Respond(p)

\* Requests are handled one at a time.
Next == Handle(1, RegisterExpiries, BlockNumbers) \/ Tick \/ Finalize

Spec == Init /\ [][Next]_vars

\* Two workers handle requests concurrently; the requests cite block 4, which
\* is finalized and holds the payments of both paras.
ConcurrentExpiries == {3}
ConcurrentBlockNumbers == {4}

InitConcurrent ==
    /\ registry = <<>>
    /\ payment_info \in {NoPaymentInfo, PaymentInfo(Receiver, <<49, 48>>, 2, 2)}
    /\ now = 0
    /\ finalized = MaxBlock
    /\ spent = {}
    /\ req = [p \in Workers |-> IdleRequest]

NextConcurrent ==
    \/ \E p \in Workers : Handle(p, ConcurrentExpiries, ConcurrentBlockNumbers)
    \/ Tick

SpecConcurrent == InitConcurrent /\ [][NextConcurrent]_vars

(***************************************************************************)
(* Properties.                                                             *)
(***************************************************************************)
\* Some extrinsic of the block is readable, decodes as a root call and
\* re-encodes to the bytes of `payment`.
BlockHolds(number, payment) ==
    \E i \in 1..Len(BlockAt(number)) :
        LET ext == BlockAt(number)[i]
        IN  /\ ext.ok
            /\ AsRootExtrinsic(ext.call_bytes).ok
            /\ Encode(AsRootExtrinsic(ext.call_bytes).call) = Encode(payment)

\* The record of the identity of `para` in `reg`.
RecordOf(reg, para) == RegisteredPara(reg, para.relay_chain, para.para_id)

WasRegistered(r) ==
    IsRegistered(r.registry_before, r.para.relay_chain, r.para.para_id)

\* C1: once the finalized head has been obtained, payment verification fails
\* with UnfinalizedPayment exactly when the claimed block number is strictly
\* greater than the head; a claimed number equal to the head is not rejected
\* as unfinalized.  Block content and configuration play no part.
C1_UnfinalizedRejected ==
    \A p \in Workers :
        LET r == req[p]
        IN  r.last_finalized # 0 =>
              /\ r.payment_block_number.number > r.last_finalized
                    => r.verdict = "UnfinalizedPayment"
              /\ r.payment_block_number.number <= r.last_finalized
                    => r.verdict # "UnfinalizedPayment"

\* C1 witness: block 4 holds the payment of Polkadot:2000 but the head is 3.
C1_Witness ==
    \E p \in Workers :
        /\ req[p].last_finalized = 3
        /\ req[p].payment_block_number.number = 4
        /\ SameIdentity(req[p].para, "Polkadot", 2000)
        /\ payment_info.some /\ ParseCost(payment_info.cost).ok
        /\ BlockHolds(4, OpaquePaymentExtrinsic(req[p].para, payment_info).call)
        /\ req[p].verdict = "UnfinalizedPayment"

\* C2: when the extrinsics of the finalized claimed block have been read and
\* one of them, at any position, decodes to a call whose encoding equals that
\* of the expected call, verification succeeds; unreadable and undecodable
\* extrinsics are skipped.
C2_PaymentFound ==
    \A p \in Workers :
        LET r == req[p]
        IN  (/\ r.extrinsics_read
             /\ BlockHolds(r.block, OpaquePaymentExtrinsic(r.para, payment_info).call))
            => r.verdict = "Ok"

\* C2 witness: the payment of Polkadot:2000 is the fourth extrinsic of block
\* 4, after an unreadable and an undecodable one.
C2_Witness ==
    \E p \in Workers :
        /\ req[p].extrinsics_read
        /\ req[p].block = 4
        /\ SameIdentity(req[p].para, "Polkadot", 2000)
        /\ ~BlockAt(4)[1].ok
        /\ ~AsRootExtrinsic(BlockAt(4)[3].call_bytes).ok
        /\ BlockAt(4)[4].call_bytes
              = Encode(OpaquePaymentExtrinsic(req[p].para, payment_info).call)
        /\ req[p].verdict = "Ok"

\* C3: when the extrinsics of the finalized claimed block have been read,
\* verification fails with PaymentNotFound exactly when no extrinsic of the
\* block encodes to the expected call for the para being verified.
C3_PaymentNotFound ==
    \A p \in Workers :
        LET r == req[p]
        IN  r.extrinsics_read =>
              (r.verdict = "PaymentNotFound"
                 <=> ~BlockHolds(r.block,
                                 OpaquePaymentExtrinsic(r.para, payment_info).call))

\* C3 witness: Polkadot:2006 is verified against block 1, which holds a valid
\* payment for Polkadot:2000 only.
C3_Witness ==
    \E p \in Workers :
        /\ req[p].extrinsics_read
        /\ req[p].block = 1
        /\ SameIdentity(req[p].para, "Polkadot", 2006)
        /\ BlockHolds(1, PaidCall(<<"Polkadot", 2000>>))
        /\ req[p].verdict = "PaymentNotFound"

\* C4: a register request for an identity that is already in the registry
\* fails with AlreadyRegistered in every payment mode and for every payment
\* block number, with no RPC call made and the registry unchanged.
C4_DuplicateRejected ==
    \A p \in Workers :
        LET r == req[p]
        IN  (r.op = "register" /\ WasRegistered(r)) =>
              /\ r.pc = "done"
              /\ r.result = Err("AlreadyRegistered")
              /\ r.rpc_calls = 0
              /\ registry = r.registry_before

\* C4 witness: paid mode, Polkadot:2000 registered, and the request cites
\* finalized block 1, which holds its payment.
C4_Witness ==
    \E p \in Workers :
        /\ req[p].op = "register" /\ WasRegistered(req[p])
        /\ payment_info.some /\ ParseCost(payment_info.cost).ok
        /\ req[p].payment_block_number = Some(1)
        /\ BlockHolds(1, OpaquePaymentExtrinsic(req[p].para, payment_info).call)
        /\ req[p].result = Err("AlreadyRegistered")

\* C5: in paid mode a register request for an unregistered para without a
\* payment block number fails with PaymentRequired, with no RPC call made
\* and the registry unchanged.
C5_PaymentRequired ==
    \A p \in Workers :
        LET r == req[p]
        IN  (/\ r.op = "register" /\ payment_info.some
             /\ ~WasRegistered(r) /\ ~r.payment_block_number.some) =>
              /\ r.pc = "done"
              /\ r.result = Err("PaymentRequired")
              /\ r.rpc_calls = 0
              /\ r.verdict = "none"
              /\ registry = r.registry_before

C5_Witness ==
    \E p \in Workers :
        /\ req[p].op = "register" /\ payment_info.some
        /\ ~WasRegistered(req[p]) /\ req[p].payment_block_number = None
        /\ req[p].result = Err("PaymentRequired")

\* C6: every failure of the payment verifier reaches the caller wrapped as
\* PaymentValidationError(failure), from register_para and from
\* extend_subscription alike.
C6_FailureWrapped ==
    \A p \in Workers :
        LET r == req[p]
        IN  r.verdict \in {"UnfinalizedPayment", "PaymentNotFound",
                           "PaymentValidationFailed"}
              => r.result = PaymentValidationError(r.verdict)

\* C6 counterexample input: register_para in paid mode citing a block beyond
\* the finalized head returns the bare Error::UnfinalizedPayment.
C6_BareFailure ==
    \E p \in Workers :
        /\ req[p].op = "register"
        /\ req[p].verdict = "UnfinalizedPayment"
        /\ req[p].result = Err("UnfinalizedPayment")

\* A finished extend_subscription request of paid mode.
PaidExtendDone(r) == r.op = "extend" /\ r.pc = "done" /\ payment_info.some

\* C7 as stated: every successful extend_subscription of paid mode leaves the
\* target's expiry_timestamp at its previous value plus subscription_duration,
\* and every failing one leaves every record as it was.
C7_AdditiveOnEverySuccess ==
    \A p \in Workers :
        LET r == req[p]
        IN  PaidExtendDone(r) =>
              IF r.result = Ok
              THEN RecordOf(registry, r.para).expiry_timestamp
                     = RecordOf(r.registry_before, r.para).expiry_timestamp
                         + payment_info.subscription_duration
              ELSE registry = r.registry_before

\* C7 amended: a successful extend_subscription of paid mode whose registry
\* write succeeds leaves the target's expiry_timestamp at its previous value
\* plus exactly subscription_duration, whatever the current time; a failing
\* one, and a successful one whose registry write fails, leaves every record
\* as it was.
C7_AdditiveWhenStored ==
    \A p \in Workers :
        LET r == req[p]
        IN  PaidExtendDone(r) =>
              IF r.result = Ok /\ r.written
              THEN /\ WasRegistered(r)
                   /\ RecordOf(registry, r.para).expiry_timestamp
                        = RecordOf(r.registry_before, r.para).expiry_timestamp
                            + payment_info.subscription_duration
              ELSE registry = r.registry_before

\* C7 witness: a stored extension made at a time other than the old expiry.
C7_Witness ==
    \E p \in Workers :
        /\ PaidExtendDone(req[p])
        /\ req[p].result = Ok /\ req[p].written
        /\ now # RecordOf(req[p].registry_before, req[p].para).expiry_timestamp
        /\ RecordOf(registry, req[p].para).expiry_timestamp
             = RecordOf(req[p].registry_before, req[p].para).expiry_timestamp + 2

\* The record an extend_subscription request found for its identity.
ExtendOfRegistered(r) == r.op = "extend" /\ payment_info.some /\ WasRegistered(r)

\* C8: in paid mode, with expiry - renewal_period saturating at zero, an
\* extend_subscription made before that instant fails with AlreadyRegistered
\* with no RPC call made and the registry unchanged; one made at or after it
\* is not rejected as too early and goes on to payment verification.
C8_RenewalWindow ==
    \A p \in Workers :
        LET r == req[p]
            expiry == RecordOf(r.registry_before, r.para).expiry_timestamp
            period == payment_info.renewal_period
            too_early == expiry > period /\ r.now_read < expiry - period
        IN  ExtendOfRegistered(r) =>
              IF too_early
              THEN /\ r.pc = "done"
                   /\ r.result = Err("AlreadyRegistered")
                   /\ r.rpc_calls = 0
                   /\ registry = r.registry_before
              ELSE /\ r.result # Err("AlreadyRegistered")
                   /\ r.pc = "rpc_client" \/ r.rpc_calls > 0

\* C8 witness: expiry 3, renewal period 1, request made at time 1.
C8_Witness ==
    \E p \in Workers :
        /\ ExtendOfRegistered(req[p])
        /\ RecordOf(req[p].registry_before, req[p].para).expiry_timestamp = 3
        /\ payment_info.renewal_period = 1
        /\ req[p].now_read = 1
        /\ req[p].result = Err("AlreadyRegistered")

\* C9: extend_subscription for an identity absent from the registry fails with
\* NotRegistered in paid and in free mode, with no renewal-window check, no
\* RPC call and no change of the registry.
C9_NotRegistered ==
    \A p \in Workers :
        LET r == req[p]
        IN  (r.op = "extend" /\ ~WasRegistered(r)) =>
              /\ r.pc = "done"
              /\ r.result = Err("NotRegistered")
              /\ r.rpc_calls = 0
              /\ r.verdict = "none"
              /\ registry = r.registry_before

\* C9 witness: paid mode, another para registered, the target absent.
C9_Witness ==
    \E p \in Workers :
        /\ req[p].op = "extend" /\ ~WasRegistered(req[p])
        /\ payment_info.some
        /\ req[p].registry_before # <<>>
        /\ req[p].result = Err("NotRegistered")

\* A register request of free mode for a para that was not registered.
FreeRegister(r) == r.op = "register" /\ ~payment_info.some /\ ~WasRegistered(r)

\* C10 as stated: in free mode a register request for an unregistered para
\* succeeds for any payment block number without payment verification, and
\* the registry is then the previous registry with that record appended.
C10_FreeRegisterAppends ==
    \A p \in Workers :
        LET r == req[p]
        IN  FreeRegister(r) =>
              /\ r.rpc_calls = 0 /\ r.verdict = "none"
              /\ r.pc \in {"update_registry", "done"}
              /\ r.pc = "done" =>
                    /\ r.result = Ok
                    /\ registry = Append(r.registry_before, r.para)

\* C10 amended: in free mode a register request for an unregistered para
\* succeeds for any payment block number without payment verification; when
\* the registry write succeeds the registry is the previous registry with
\* that record appended (that one record alone when it was empty), and when
\* the write fails the registry is unchanged.
C10_FreeRegisterAppendsWhenStored ==
    \A p \in Workers :
        LET r == req[p]
        IN  FreeRegister(r) =>
              /\ r.rpc_calls = 0 /\ r.verdict = "none"
              /\ r.pc \in {"update_registry", "done"}
              /\ r.pc = "done" =>
                    /\ r.result = Ok
                    /\ registry = IF r.written
                                  THEN Append(r.registry_before, r.para)
                                  ELSE r.registry_before
                    /\ (r.written /\ r.registry_before = <<>>)
                          => registry = <<r.para>>

\* C10 witness: a second para registered in free mode with a payment block
\* number supplied.
C10_Witness ==
    \E p \in Workers :
        /\ FreeRegister(req[p]) /\ req[p].pc = "done"
        /\ req[p].payment_block_number.some
        /\ req[p].written
        /\ Len(req[p].registry_before) = 1
        /\ registry = Append(req[p].registry_before, req[p].para)

\* C11: when update_registry fails at the end of an otherwise successful
\* register_para or extend_subscription, the request still returns success
\* and the stored registry keeps its previous contents.
C11_WriteFailureSwallowed ==
    \A p \in Workers :
        LET r == req[p]
        IN  (r.write_attempted /\ ~r.written) =>
              /\ r.pc = "done"
              /\ r.result = Ok
              /\ registry = r.registry_before

\* C11 witness: a paid extension whose payment verified and whose write
\* failed; the expiry is as it was.
C11_Witness ==
    \E p \in Workers :
        /\ req[p].op = "extend" /\ req[p].verdict = "Ok"
        /\ req[p].write_attempted /\ ~req[p].written
        /\ req[p].result = Ok
        /\ RecordOf(registry, req[p].para) = req[p].para

\* C12: when payment_info.cost does not parse as a non-negative integer,
\* payment verification never succeeds; once the claimed block has passed
\* the finality check and been fetched, verification has failed with
\* PaymentValidationFailed without reading the extrinsics, and the request
\* leaves the registry as it was.
C12_UnparsableCostFails ==
    (payment_info.some /\ ~ParseCost(payment_info.cost).ok) =>
        \A p \in Workers :
            LET r == req[p]
            IN  /\ r.verdict # "Ok"
                /\ ~r.write_attempted
                /\ r.op # "none" => registry = r.registry_before
                /\ r.block # 0 =>
                      /\ r.pc = "done"
                      /\ r.verdict = "PaymentValidationFailed"
                      /\ ~r.extrinsics_read
                      /\ r.result.state = "err"

\* C12 witness: cost "1x"; block 1, which holds the payment of Polkadot:2000,
\* is finalized and has been fetched.
C12_Witness ==
    \E p \in Workers :
        /\ payment_info.some /\ payment_info.cost = <<49, 120>>
        /\ SameIdentity(req[p].para, "Polkadot", 2000)
        /\ req[p].block = 1 /\ req[p].failed_at = ""
        /\ req[p].verdict = "PaymentValidationFailed"

\* The RPC calls of validate_registration_payment, in the order made.
RpcSteps ==
    <<"rpc_client", "online_client", "finalized_head", "head_block",
      "block_hash", "get_block", "extrinsics">>

\* C15: an RPC failure at any step of payment verification ends it there with
\* PaymentValidationFailed: the calls made are those up to the failed one, so
\* it is not retried and no later step runs, and the request fails without
\* touching the registry.
C15_RpcFailureIsTerminal ==
    \A p \in Workers :
        LET r == req[p]
        IN  r.failed_at # "" =>
              /\ r.pc = "done"
              /\ r.verdict = "PaymentValidationFailed"
              /\ \E k \in 1..Len(RpcSteps) :
                    RpcSteps[k] = r.failed_at /\ r.rpc_calls = k
              /\ r.failed_at # "extrinsics" => ~r.extrinsics_read
              /\ r.failed_at \in {"rpc_client", "online_client", "finalized_head",
                                  "head_block"} => r.last_finalized = 0
              /\ r.failed_at # "get_block" /\ r.failed_at # "extrinsics"
                    => r.block = 0
              /\ r.result.state = "err"
              /\ ~r.write_attempted
              /\ registry = r.registry_before

\* C15 witness: an extension of a registered para whose claimed block was
\* fetched and whose extrinsics could not be read.
C15_Witness ==
    \E p \in Workers :
        /\ req[p].op = "extend"
        /\ req[p].failed_at = "extrinsics"
        /\ req[p].rpc_calls = 7
        /\ req[p].result = PaymentValidationError("PaymentValidationFailed")

\* The text "<relay-chain>:<para-id>" of the identities of the model, written
\* out: "Polkadot:2000" and "Polkadot:2006".
RemarkText(relay_chain, para_id) ==
    <<80, 111, 108, 107, 97, 100, 111, 116, 58, 50, 48, 48>>
        \o (IF para_id = 2000 THEN <<48>> ELSE <<54>>)

\* C16: the expected call is batch_all of exactly two sub-calls,
\* transfer_keep_alive(receiver, cost) and then remark("<relay>:<para-id>");
\* it depends on the relay chain, para id, receiver and cost alone (not on
\* the record's expiry nor on the durations of the configuration); and a
\* block whose payment-like extrinsics have the sub-calls reversed, another
\* amount or receiver, a missing or an extra sub-call, or that only pays for
\* another identity, is answered PaymentNotFound.
C16_ExpectedCallExact ==
    \A p \in Workers :
        LET r == req[p]
            built == OpaquePaymentExtrinsic(r.para, payment_info)
        IN  (r.op # "none" /\ payment_info.some /\ built.ok) =>
              /\ built.call.pallet = "Utility" /\ built.call.call = "batch_all"
              /\ Len(built.call.calls) = 2
              /\ built.call.calls[1]
                    = TransferKeepAlive(payment_info.receiver,
                                        DigitsValue(payment_info.cost))
              /\ built.call.calls[2]
                    = SystemRemark(RemarkText(r.para.relay_chain, r.para.para_id))
              /\ built = OpaquePaymentExtrinsic(
                            Parachain(r.para.relay_chain, r.para.para_id, 0),
                            [payment_info EXCEPT !.subscription_duration = 0,
                                                 !.renewal_period = 0])
              /\ (/\ r.extrinsics_read
                  /\ \/ BlockAt(r.block)
                          = NearMisses(<<r.para.relay_chain, r.para.para_id>>)
                     \/ /\ BlockAt(r.block) = BlockBodies[2]
                        /\ r.para.para_id = 2000)
                    => r.verdict = "PaymentNotFound"

\* C16 witness: an extension of Polkadot:2000, whose record has a non-zero
\* expiry, verified against block 3, which holds only its near misses.
C16_Witness ==
    \E p \in Workers :
        /\ req[p].op = "extend"
        /\ req[p].para.expiry_timestamp > 0
        /\ req[p].extrinsics_read
        /\ req[p].block = 3
        /\ BlockAt(3) = NearMisses(<<"Polkadot", 2000>>)
        /\ req[p].verdict = "PaymentNotFound"

\* C17: in free mode extend_subscription for a registered identity makes no
\* renewal-window check and no payment verification, succeeds for every
\* payment block number, and adds the zero duration: the registry is the
\* same after the call as before.
C17_FreeExtendIsNoOp ==
    \A p \in Workers :
        LET r == req[p]
        IN  (r.op = "extend" /\ ~payment_info.some /\ WasRegistered(r)) =>
              /\ r.pc \in {"extend_write", "done"}
              /\ r.rpc_calls = 0 /\ r.verdict = "none"
              /\ registry = r.registry_before
              /\ r.pc = "done" => r.result = Ok /\ r.write_attempted

\* C17 witness: at time 0 a record expiring at 3 is extended, citing a block
\* beyond the finalized head; the write succeeded and the record is the same.
C17_Witness ==
    \E p \in Workers :
        /\ req[p].op = "extend" /\ ~payment_info.some
        /\ req[p].pc = "done" /\ req[p].written
        /\ now = 0 /\ req[p].para.expiry_timestamp = 3
        /\ req[p].payment_block_number.number > finalized
        /\ RecordOf(registry, req[p].para) = req[p].para

C14_NoLostUpdate ==
    \A p \in Workers :
        LET r == req[p]
        IN  (r.pc = "done" /\ r.written) =>
              /\ IsRegistered(registry, r.para.relay_chain, r.para.para_id)
              /\ r.op = "extend" =>
                    RecordOf(registry, r.para).expiry_timestamp
                        >= r.para.expiry_timestamp
                             + SubscriptionDuration(payment_info)

\* C14 failing input: the registration of one para has completed and been
\* stored, and a registration of the other para, which read the registry
\* before, has then written its own snapshot back.
C14_RecordLost ==
    \E p, q \in Workers :
        /\ p # q
        /\ req[p].op = "register" /\ req[p].pc = "done" /\ req[p].written
        /\ req[q].op = "register" /\ req[q].pc = "done" /\ req[q].written
        /\ ~IsRegistered(registry, req[p].para.relay_chain, req[p].para.para_id)
        /\ IsRegistered(registry, req[q].para.relay_chain, req[q].para.para_id)

\* C18: an extension of an identity that was registered when the request
\* arrived and has been in every registry written since, that was inside its
\* renewal window and whose payment verified, does not answer NotRegistered,
\* whatever other requests run at the same time.
C18_RegisteredIsFound ==
    \A p \in Workers :
        LET r == req[p]
        IN  (/\ r.op = "extend" /\ r.pc = "done"
             /\ payment_info.some
             /\ WasRegistered(r)
             /\ ~r.absent_seen
             /\ r.verdict = "Ok")
            => r.result # Err("NotRegistered")

\* C18 failing input: two extensions of the same registered identity were in
\* progress together; one has stored its increment and the other, whose
\* payment verified as well, has answered NotRegistered although the identity
\* is in the registry.
C18_ExtensionRefused ==
    \E p, q \in Workers :
        /\ p # q
        /\ req[p].op = "extend" /\ req[p].pc = "done" /\ req[p].written
        /\ req[q].op = "extend" /\ req[q].pc = "done" /\ req[q].verdict = "Ok"
        /\ SameIdentity(req[p].para, req[q].para.relay_chain, req[q].para.para_id)
        /\ ~req[q].absent_seen
        /\ IsRegistered(registry, req[q].para.relay_chain, req[q].para.para_id)
        /\ req[q].result = Err("NotRegistered")

\* C19: a payment (identity, payment block number) that has justified a stored
\* registration or extension does not justify a later stored extension of
\* the same identity.
C19_PaymentSingleUse ==
    \A p \in Workers :
        LET r == req[p]
        IN  (r.op = "extend" /\ r.pc = "done" /\ r.written /\ r.verdict = "Ok")
            => ~r.paid_again

====
